---- MODULE Spec2Model ----
(***************************************************************************)
(* Model of the backend process of src/main.go: logger setup, database     *)
(* open, construction of the gorilla/mux handler, the serve goroutine      *)
(* started by `go server.ListenAndServe()`, the signal wait and the        *)
(* time-bounded shutdown that ends in logrus.Exit(0).                      *)
(***************************************************************************)
EXTENDS Integers, Sequences, FiniteSets, TLC

VARIABLES
    pc,          \* position of the main control path (func main)
    exitCause,   \* "none" while running, else how the process ended
    exitCode,    \* exit status, -1 while running
    logFile,     \* "unopened" | "open" | "closed"   (logFile of setupLogger)
    logged,      \* set of lifecycle messages written through logrus
    dsn,         \* value of POSTGRES_DSN ("" when unset)
    db,          \* "none" | "open" | "closed"        (the *sql.DB inside bun.DB)
    store,       \* "up" | "down": whether the PostgreSQL store is reachable
    rows,        \* version records of the store, in the order the query yields them
    srv,         \* state of the goroutine running server.ListenAndServe
    inShutdown,  \* http.Server.inShutdown
    notified,    \* signal.Notify(c, os.Interrupt) has been called
    sigChan,     \* number of signals buffered in c (capacity 1)
    sigCount,    \* number of interrupt signals raised so far
    deadline,    \* "unset" | "armed" | "expired"     (ctx of context.WithTimeout)
    shutdownErr, \* "none" | "nil" | "deadline"       (err of server.Shutdown)
    lateSignal,  \* a signal was raised while main was blocked in server.Shutdown
    phases,      \* lifecycle phases entered by the main control path, in order
    conns,       \* connections of the server
    rq,          \* request given to the handler on its own (routing specification)
    rs,          \* response of the handler on its own
    rlog         \* what the handler on its own logged and called, in order

vars == <<pc, exitCause, exitCode, logFile, logged, dsn, db, store, rows, srv,
          inShutdown, notified, sigChan, sigCount, deadline, shutdownErr,
          lateSignal, phases, conns, rq, rs, rlog>>

lifecycleVars == <<pc, exitCause, exitCode, logFile, logged, dsn, db, store, rows, srv,
                   inShutdown, notified, sigChan, sigCount, deadline, shutdownErr,
                   lateSignal, phases, conns>>

(***************************************************************************)
(* Bounds                                                                  *)
(***************************************************************************)
MaxConn == 2
MaxSignals == 2
MaxSeg == 2

(***************************************************************************)
(* Requests and responses                                                  *)
(***************************************************************************)
Methods == {"GET", "POST"}

\* A path is the sequence of its segments: "/" is <<>>, "/version/latest" is
\* <<"version","latest">>, "/x/" is <<"x","">>, "//" is <<"","">>.
Segments == {"version", "latest", "x", "", ".."}

SeqsUpTo(n) == UNION {[1..k -> Segments] : k \in 0..n}

Paths == {p \in SeqsUpTo(MaxSeg) : p # <<"">>}

Root == <<>>

VersionLatest == <<"version", "latest">>

NoReq == [method |-> "none", path |-> Root]

NoResp == [status |-> 0, body |-> "none"]

Req(m, p) == [method |-> m, path |-> p]

\* The requests clients send to the running server: one for each handler that
\* createHttpHandler registers (every other request is covered by AllReqs).
ReqSet == {Req("GET", Root), Req("GET", VersionLatest)}

AllReqs == {Req(m, p) : m \in Methods, p \in Paths}

\* The version records of a store, as the repository's query orders them
\* (newest first).
ThreeVersions == <<"1.2.0", "1.1.0", "1.0.0">>

Stores == {<<>>, ThreeVersions}

(***************************************************************************)
(* The handler built by createHttpHandler                                  *)
(***************************************************************************)
RECURSIVE Clean(_, _)
\* path.Clean on an absolute path: drops empty segments, resolves "..".
Clean(p, acc) ==
    IF p = <<>> THEN acc
    ELSE LET s == Head(p) IN
         IF s = "" THEN Clean(Tail(p), acc)
         ELSE IF s = ".."
              THEN Clean(Tail(p), IF acc = <<>> THEN acc ELSE SubSeq(acc, 1, Len(acc) - 1))
              ELSE Clean(Tail(p), Append(acc, s))

\* mux cleanPath: path.Clean, then the trailing slash is put back.
cleanPath(p) ==
    LET np == Clean(p, <<>>) IN
    IF p # <<>> /\ p[Len(p)] = "" /\ np # <<>> THEN Append(np, "") ELSE np

\* Variant of livenessHandler that pings the database before answering.
livenessHandlerPing(d, st) ==
    IF d = "open" /\ st = "up"
    THEN [status |-> 200, body |-> "dzialam"]
    ELSE [status |-> 500, body |-> "error"]

\* fmt.Fprintf(w, "dzialam") on the route "/" (any method).
livenessHandler(d, st) == [status |-> 200, body |-> "dzialam"]

\* PgVersionRepo over the shared handle: the query fails on a closed or
\* missing handle and on an unreachable store.
repoLatestVersions(d, st) == IF d = "open" /\ st = "up" THEN "ok" ELSE "StorageError"

\* VersionController.ServeLatestVersions.
ServeLatestVersions(d, st) ==
    IF repoLatestVersions(d, st) = "ok"
    THEN [status |-> 200, body |-> "versions"]
    ELSE [status |-> 500, body |-> "error"]

notFoundHandler == [status |-> 404, body |-> "notFound"]

\* mux answers a path that matches a route whose method matcher fails with
\* its default 405 handler: createHttpHandler sets no MethodNotAllowedHandler.
methodNotAllowed == [status |-> 405, body |-> "methodNotAllowed"]

\* Router.ServeHTTP redirects a request whose path is not clean.
redirect == [status |-> 301, body |-> "redirect"]

\* Variant of router whose "/" route is registered with PathPrefix("/").
routerPrefixRoot(r, d, st) ==
    IF cleanPath(r.path) # r.path THEN redirect
    ELSE livenessHandler(d, st)

\* The routes of createHttpHandler, tried in registration order.
router(r, d, st) ==
    IF cleanPath(r.path) # r.path THEN redirect
    ELSE IF r.path = Root THEN livenessHandler(d, st)
    ELSE IF r.path = VersionLatest
         THEN IF r.method = "GET" THEN ServeLatestVersions(d, st)
              ELSE methodNotAllowed
    ELSE notFoundHandler

\* logHandler(router): the middleware delegates to the router.
createHttpHandler(r, d, st) == router(r, d, st)

\* PgVersionRepo "fetch latest versions": the records of the store as the
\* query orders them, none when the query fails.
fetchLatestVersions(d, st, rw) == IF repoLatestVersions(d, st) = "ok" THEN rw ELSE <<>>

\* requestLog(r).Infoln("Handling request."): the entry of the middleware.
requestLog(r) ==
    [kind |-> "log", level |-> "info", msg |-> "Handling request.",
     method |-> r.method, path |-> r.path]

\* The call next.ServeHTTP(w, r) of the middleware.
nextServeHTTP(r) ==
    [kind |-> "call", level |-> "none", msg |-> "next.ServeHTTP",
     method |-> r.method, path |-> r.path]

\* The entry VersionController.ServeLatestVersions writes for the outcome of
\* the repository call.
ServeLatestVersionsLog(r, d, st) ==
    IF repoLatestVersions(d, st) = "ok"
    THEN <<[kind |-> "log", level |-> "info", msg |-> "Serving latest versions.",
            method |-> r.method, path |-> r.path]>>
    ELSE <<[kind |-> "log", level |-> "error", msg |-> "StorageError",
            method |-> r.method, path |-> r.path]>>

\* What the handler chosen by the router logs.
routerLog(r, d, st) ==
    IF cleanPath(r.path) = r.path /\ r.path = VersionLatest /\ r.method = "GET"
    THEN ServeLatestVersionsLog(r, d, st)
    ELSE <<>>

\* Variant of logHandler that logs only the requests a route matches.
logHandlerMatchedOnly(r, d, st) ==
    IF router(r, d, st) \in {notFoundHandler, methodNotAllowed}
    THEN <<nextServeHTTP(r)>>
    ELSE <<requestLog(r), nextServeHTTP(r)>> \o routerLog(r, d, st)

\* logHandler: the entry of the middleware, then next.ServeHTTP(w, r) and
\* what the router's handler logs.
logHandler(r, d, st) == <<requestLog(r), nextServeHTTP(r)>> \o routerLog(r, d, st)

(***************************************************************************)
(* Connections                                                             *)
(***************************************************************************)
ConnIds == 1..MaxConn

\* atSignal: the request of the connection was in flight when an interrupt
\* signal was delivered.
\* log: what the handler logged and called for the request of the connection.
NoConn == [st |-> "none", req |-> NoReq, resp |-> NoResp, atSignal |-> FALSE,
           log |-> <<>>]

Running == exitCause = "none"

\* Positions of the main control path inside the wait loop of server.Shutdown.
ShutdownWaitPcs == {"shutdownPoll", "shutdownSelect"}

\* Positions of the main control path from the return of awaitInterruption on.
ShutdownPcs == {"shutdownLog", "shutdownCall", "shutdownReturned"} \cup ShutdownWaitPcs

ActiveConns == {c \in ConnIds : conns[c].st = "active"}

Terminate(cause, code) ==
    /\ pc' = "exited"
    /\ exitCause' = cause
    /\ exitCode' = code

Init ==
    /\ pc = "setupLogger"
    /\ exitCause = "none"
    /\ exitCode = -1
    /\ logFile = "unopened"
    /\ logged = {}
    /\ dsn \in {"", "postgres://db"}
    /\ db = "none"
    /\ store \in {"up", "down"}
    /\ rows \in Stores
    /\ srv = "none"
    /\ inShutdown = FALSE
    /\ notified = FALSE
    /\ sigChan = 0
    /\ sigCount = 0
    /\ deadline = "unset"
    /\ shutdownErr = "none"
    /\ lateSignal = FALSE
    /\ phases = <<>>
    /\ conns = [c \in ConnIds |-> NoConn]
    /\ rq = NoReq
    /\ rs = NoResp
    /\ rlog = <<>>

(***************************************************************************)
(* The main control path                                                   *)
(***************************************************************************)
\* setupLogger and the "Starting backend." line: logrus.Fatalf when the log
\* file cannot be opened, else the exit handler closing it is registered.
SetupLogger ==
    /\ Running /\ pc = "setupLogger"
    /\ \E ok \in BOOLEAN :
         IF ok
         THEN /\ logFile' = "open"
              /\ logged' = logged \cup {"Starting backend."}
              /\ pc' = "readDsn"
              /\ UNCHANGED <<exitCause, exitCode>>
         ELSE /\ logged' = logged \cup {"Failed to open log file"}
              /\ Terminate("fatal", 1)
              /\ UNCHANGED logFile
    /\ UNCHANGED <<dsn, db, store, rows, srv, inShutdown, notified, sigChan, sigCount,
                   deadline, shutdownErr, phases, conns, lateSignal, rq, rs, rlog>>

\* main, lines 95-100.
ReadDsn ==
    /\ Running /\ pc = "readDsn"
    /\ logged' = logged \cup {"Opening database."}
                        \cup (IF dsn = "" THEN {"POSTGRES_DSN is not set!"} ELSE {})
    /\ pc' = "openDb"
    /\ UNCHANGED <<exitCause, exitCode, logFile, dsn, db, store, rows, srv, inShutdown,
                   notified, sigChan, sigCount, deadline, shutdownErr, phases,
                   conns, lateSignal, rq, rs, rlog>>

\* openDb: on success the deferred sqldb.Close() closes the handle before it
\* is returned; on failure sqldb is nil and the deferred Close dereferences it.
openDb ==
    /\ Running /\ pc = "openDb"
    /\ \E err \in BOOLEAN :
         IF err
         THEN /\ logged' = logged \cup {"Database open failed."}
              /\ Terminate("panic", 2)
              /\ UNCHANGED db
         ELSE /\ db' = "closed"
              /\ logged' = logged \cup {"Creating http handler."}
              /\ pc' = "createHandler"
              /\ UNCHANGED <<exitCause, exitCode>>
    /\ UNCHANGED <<logFile, dsn, store, rows, srv, inShutdown, notified, sigChan,
                   sigCount, deadline, shutdownErr, phases, conns, lateSignal, rq, rs, rlog>>

\* main, lines 104-106: the handler is built and the serve goroutine is
\* started; its result is discarded.
StartServer ==
    /\ Running /\ pc = "createHandler"
    /\ srv' = "spawned"
    /\ phases' = Append(phases, "Start")
    /\ pc' = "started"
    /\ UNCHANGED <<exitCause, exitCode, logFile, logged, dsn, db, store, rows,
                   inShutdown, notified, sigChan, sigCount, deadline,
                   shutdownErr, conns, lateSignal, rq, rs, rlog>>

\* main line 108 and awaitInterruption up to signal.Notify.
AwaitNotify ==
    /\ Running /\ pc = "started"
    /\ logged' = logged \cup {"Starting listening..."}
    /\ notified' = TRUE
    /\ phases' = Append(phases, "Wait")
    /\ pc' = "wait"
    /\ UNCHANGED <<exitCause, exitCode, logFile, dsn, db, store, rows, srv, inShutdown,
                   sigChan, sigCount, deadline, shutdownErr, conns, lateSignal, rq, rs, rlog>>

\* Variant of awaitInterruption that also returns when the serve goroutine
\* has failed.
awaitInterruptionOrServeError ==
    /\ Running /\ pc = "wait"
    /\ sigChan > 0 \/ srv = "bindFailed"
    /\ sigChan' = 0
    /\ pc' = "shutdownLog"
    /\ UNCHANGED <<exitCause, exitCode, logFile, logged, dsn, db, store, rows, srv,
                   inShutdown, notified, sigCount, deadline, shutdownErr,
                   phases, conns, lateSignal, rq, rs, rlog>>

\* Variant of awaitInterruption that waits again after the first signal.
awaitInterruptionAgain ==
    /\ Running /\ pc = "wait"
    /\ sigChan > 0
    /\ sigChan' = sigChan - 1
    /\ pc' = IF sigCount < 2 THEN "started" ELSE "shutdownLog"
    /\ UNCHANGED <<exitCause, exitCode, logFile, logged, dsn, db, store, rows, srv,
                   inShutdown, notified, sigCount, deadline, shutdownErr,
                   phases, conns, lateSignal, rq, rs, rlog>>

\* awaitInterruption: <-c returns once a signal is buffered in c.
awaitInterruption ==
    /\ Running /\ pc = "wait"
    /\ sigChan > 0
    /\ sigChan' = sigChan - 1
    /\ pc' = "shutdownLog"
    /\ UNCHANGED <<exitCause, exitCode, logFile, logged, dsn, db, store, rows, srv,
                   inShutdown, notified, sigCount, deadline, shutdownErr,
                   phases, conns, lateSignal, rq, rs, rlog>>

\* Variant of BeginShutdown that passes a context without a timeout.
BeginShutdownNoTimeout ==
    /\ Running /\ pc = "shutdownLog"
    /\ logged' = logged \cup {"Shutting down..."}
    /\ phases' = Append(phases, "Shutdown")
    /\ pc' = "shutdownCall"
    /\ UNCHANGED <<exitCause, exitCode, logFile, dsn, db, store, rows, srv, inShutdown,
                   notified, sigChan, sigCount, deadline, shutdownErr, conns,
                   lateSignal, rq, rs, rlog>>

\* main, lines 111-112: the log line and the 10 second context.
BeginShutdown ==
    /\ Running /\ pc = "shutdownLog"
    /\ logged' = logged \cup {"Shutting down..."}
    /\ deadline' = "armed"
    /\ phases' = Append(phases, "Shutdown")
    /\ pc' = "shutdownCall"
    /\ UNCHANGED <<exitCause, exitCode, logFile, dsn, db, store, rows, srv, inShutdown,
                   notified, sigChan, sigCount, shutdownErr, conns, lateSignal, rq, rs, rlog>>

\* Variant of ShutdownCall that leaves the listener open.
ShutdownCallKeepsListener ==
    /\ Running /\ pc = "shutdownCall"
    /\ inShutdown' = TRUE
    /\ pc' = "shutdownPoll"
    /\ UNCHANGED <<exitCause, exitCode, logFile, logged, dsn, db, store, rows, srv,
                   notified, sigChan, sigCount, deadline, shutdownErr, phases,
                   conns, lateSignal, rq, rs, rlog>>

\* server.Shutdown, first part: inShutdown is set and the listeners are closed.
ShutdownCall ==
    /\ Running /\ pc = "shutdownCall"
    /\ inShutdown' = TRUE
    /\ srv' = IF srv = "listening" THEN "closed" ELSE srv
    /\ pc' = "shutdownPoll"
    /\ UNCHANGED <<exitCause, exitCode, logFile, logged, dsn, db, store, rows, notified,
                   sigChan, sigCount, deadline, shutdownErr, phases, conns, lateSignal, rq, rs, rlog>>

\* Variant of ShutdownPoll that closes the idle connections and returns
\* without waiting for the others (server.Close instead of server.Shutdown).
ShutdownPollNoWait ==
    /\ Running /\ pc = "shutdownPoll"
    /\ conns' = [c \in ConnIds |->
                   IF conns[c].st \in {"idle", "new"}
                   THEN [conns[c] EXCEPT !.st = "closed"]
                   ELSE conns[c]]
    /\ pc' = "shutdownReturned"
    /\ shutdownErr' = "nil"
    /\ UNCHANGED <<exitCause, exitCode, logFile, logged, dsn, db, store, rows, srv,
                   inShutdown, notified, sigChan, sigCount, deadline, phases,
                   lateSignal, rq, rs, rlog>>

\* server.Shutdown, closeIdleConns: idle connections are closed, a connection
\* that has sent no request is closed once it is stale (stale is the set of
\* those older than five seconds); Shutdown returns nil when nothing is left.
ShutdownPoll ==
    /\ Running /\ pc = "shutdownPoll"
    /\ \E stale \in SUBSET {c \in ConnIds : conns[c].st = "new"} :
         LET closing == {c \in ConnIds : conns[c].st = "idle"} \cup stale
             quiescent == \A c \in ConnIds : conns[c].st \in {"none", "closed"} \/ c \in closing
         IN /\ conns' = [c \in ConnIds |->
                           IF c \in closing THEN [conns[c] EXCEPT !.st = "closed"]
                           ELSE conns[c]]
            /\ IF quiescent
               THEN pc' = "shutdownReturned" /\ shutdownErr' = "nil"
               ELSE pc' = "shutdownSelect" /\ UNCHANGED shutdownErr
    /\ UNCHANGED <<exitCause, exitCode, logFile, logged, dsn, db, store, rows, srv,
                   inShutdown, notified, sigChan, sigCount, deadline, phases, lateSignal, rq, rs, rlog>>

\* server.Shutdown, select: the poll timer fires.
ShutdownTick ==
    /\ Running /\ pc = "shutdownSelect"
    /\ pc' = "shutdownPoll"
    /\ UNCHANGED <<exitCause, exitCode, logFile, logged, dsn, db, store, rows, srv,
                   inShutdown, notified, sigChan, sigCount, deadline, shutdownErr,
                   phases, conns, lateSignal, rq, rs, rlog>>

\* server.Shutdown, select: ctx.Done() is closed, Shutdown returns ctx.Err().
ShutdownTimeout ==
    /\ Running /\ pc = "shutdownSelect"
    /\ deadline = "expired"
    /\ shutdownErr' = "deadline"
    /\ pc' = "shutdownReturned"
    /\ UNCHANGED <<exitCause, exitCode, logFile, logged, dsn, db, store, rows, srv,
                   inShutdown, notified, sigChan, sigCount, deadline, phases,
                   conns, lateSignal, rq, rs, rlog>>

\* Variant of shutdown that ends the process with os.Exit(0), which runs no
\* exit handler.
shutdownOsExit ==
    /\ Running /\ pc = "shutdownReturned"
    /\ logged' = logged \cup (IF shutdownErr # "nil"
                              THEN {"Http server shutdown failed."} ELSE {})
    /\ Terminate("logrusExit", 0)
    /\ UNCHANGED <<logFile, dsn, db, store, rows, srv, inShutdown, notified, sigChan,
                   sigCount, deadline, shutdownErr, phases, conns, lateSignal,
                   rq, rs, rlog>>

\* Variant of shutdown that treats the error of server.Shutdown as fatal
\* (logrus.Fatal: exit status 1).
shutdownFatalOnError ==
    /\ Running /\ pc = "shutdownReturned"
    /\ logged' = logged \cup (IF shutdownErr # "nil"
                              THEN {"Http server shutdown failed."} ELSE {})
    /\ logFile' = IF logFile = "open" THEN "closed" ELSE logFile
    /\ IF shutdownErr # "nil" THEN Terminate("fatal", 1) ELSE Terminate("logrusExit", 0)
    /\ UNCHANGED <<dsn, db, store, rows, srv, inShutdown, notified, sigChan, sigCount,
                   deadline, shutdownErr, phases, conns, lateSignal, rq, rs, rlog>>

\* shutdown, lines 84-87: the warning, then logrus.Exit(0) runs the exit
\* handler registered by setupLogger and ends the process.
shutdown ==
    /\ Running /\ pc = "shutdownReturned"
    /\ logged' = logged \cup (IF shutdownErr # "nil"
                              THEN {"Http server shutdown failed."} ELSE {})
    /\ logFile' = IF logFile = "open" THEN "closed" ELSE logFile
    /\ Terminate("logrusExit", 0)
    /\ UNCHANGED <<dsn, db, store, rows, srv, inShutdown, notified, sigChan, sigCount,
                   deadline, shutdownErr, phases, conns, lateSignal, rq, rs, rlog>>

\* The timer of context.WithTimeout(ctx, 10*time.Second) fires.
DeadlineExpires ==
    /\ Running /\ deadline = "armed"
    /\ deadline' = "expired"
    /\ UNCHANGED <<pc, exitCause, exitCode, logFile, logged, dsn, db, store, rows, srv,
                   inShutdown, notified, sigChan, sigCount, shutdownErr, phases,
                   conns, lateSignal, rq, rs, rlog>>

MainStep ==
    \/ SetupLogger
    \/ ReadDsn
    \/ openDb
    \/ StartServer
    \/ AwaitNotify
    \/ awaitInterruption
    \/ BeginShutdown
    \/ ShutdownCall
    \/ ShutdownPoll
    \/ ShutdownTick
    \/ ShutdownTimeout
    \/ shutdown

(***************************************************************************)
(* The serve goroutine: go server.ListenAndServe()                         *)
(***************************************************************************)
\* ListenAndServe: ErrServerClosed when already shutting down, else
\* net.Listen on 127.0.0.1:2137, which may fail; the error goes nowhere.
ListenAndServe ==
    /\ Running /\ srv = "spawned"
    /\ IF inShutdown
       THEN srv' = "closed"
       ELSE \E ok \in BOOLEAN : srv' = IF ok THEN "bound" ELSE "bindFailed"
    /\ UNCHANGED <<pc, exitCause, exitCode, logFile, logged, dsn, db, store, rows,
                   inShutdown, notified, sigChan, sigCount, deadline,
                   shutdownErr, phases, conns, lateSignal, rq, rs, rlog>>

\* Variant of Serve that starts the accept loop without looking at inShutdown.
ServeNoShutdownCheck ==
    /\ Running /\ srv = "bound"
    /\ srv' = "listening"
    /\ UNCHANGED <<pc, exitCause, exitCode, logFile, logged, dsn, db, store, rows,
                   inShutdown, notified, sigChan, sigCount, deadline,
                   shutdownErr, phases, conns, lateSignal, rq, rs, rlog>>

\* Serve: trackListener refuses the listener when the server is shutting down.
Serve ==
    /\ Running /\ srv = "bound"
    /\ srv' = IF inShutdown THEN "closed" ELSE "listening"
    /\ UNCHANGED <<pc, exitCause, exitCode, logFile, logged, dsn, db, store, rows,
                   inShutdown, notified, sigChan, sigCount, deadline,
                   shutdownErr, phases, conns, lateSignal, rq, rs, rlog>>

\* The accept loop takes a new connection (connections are numbered in the
\* order in which they are accepted).
Accept(c) ==
    /\ Running /\ srv = "listening"
    /\ conns[c].st = "none"
    /\ \A d \in ConnIds : d < c => conns[d].st # "none"
    /\ conns' = [conns EXCEPT ![c] = [NoConn EXCEPT !.st = "new"]]
    /\ UNCHANGED <<pc, exitCause, exitCode, logFile, logged, dsn, db, store, rows, srv,
                   inShutdown, notified, sigChan, sigCount, deadline,
                   shutdownErr, phases, lateSignal, rq, rs, rlog>>

\* A request is read from a new or kept-alive connection and dispatched to
\* server.Handler: the middleware logs it and calls the router.
Dispatch(c, r) ==
    /\ Running
    /\ conns[c].st \in {"new", "idle"}
    /\ conns' = [conns EXCEPT ![c] = [@ EXCEPT !.st = "active", !.req = r, !.resp = NoResp,
                                               !.atSignal = FALSE,
                                               !.log = <<requestLog(r), nextServeHTTP(r)>>]]
    /\ UNCHANGED <<pc, exitCause, exitCode, logFile, logged, dsn, db, store, rows, srv,
                   inShutdown, notified, sigChan, sigCount, deadline,
                   shutdownErr, phases, lateSignal, rq, rs, rlog>>

\* Variant of Respond in which a failed repository call is fatal for the
\* process (logrus.Fatal in the handler).
RespondFatalOnError(c) ==
    /\ Running
    /\ conns[c].st = "active"
    /\ conns' = [conns EXCEPT ![c] =
                   [@ EXCEPT !.st = IF inShutdown THEN "closed" ELSE "idle",
                             !.resp = createHttpHandler(conns[c].req, db, store),
                             !.log = logHandler(conns[c].req, db, store)]]
    /\ IF createHttpHandler(conns[c].req, db, store).status = 500
       THEN Terminate("fatal", 1)
       ELSE UNCHANGED <<pc, exitCause, exitCode>>
    /\ UNCHANGED <<logFile, logged, dsn, db, store, rows, srv,
                   inShutdown, notified, sigChan, sigCount, deadline,
                   shutdownErr, phases, lateSignal, rq, rs, rlog>>

\* Variant of Respond in which the version handler reopens a closed database
\* handle after its query.
RespondReopensDb(c) ==
    /\ Running
    /\ conns[c].st = "active"
    /\ conns' = [conns EXCEPT ![c] =
                   [@ EXCEPT !.st = IF inShutdown THEN "closed" ELSE "idle",
                             !.resp = createHttpHandler(conns[c].req, db, store),
                             !.log = logHandler(conns[c].req, db, store)]]
    /\ db' = IF conns[c].req.path = VersionLatest THEN "open" ELSE db
    /\ UNCHANGED <<pc, exitCause, exitCode, logFile, logged, dsn, store, rows, srv,
                   inShutdown, notified, sigChan, sigCount, deadline,
                   shutdownErr, phases, lateSignal, rq, rs, rlog>>

\* The handler returns and the response is written; the connection is kept
\* alive unless the server is shutting down.
Respond(c) ==
    /\ Running
    /\ conns[c].st = "active"
    /\ conns' = [conns EXCEPT ![c] =
                   [@ EXCEPT !.st = IF inShutdown THEN "closed" ELSE "idle",
                             !.resp = createHttpHandler(conns[c].req, db, store),
                             !.log = logHandler(conns[c].req, db, store)]]
    /\ UNCHANGED <<pc, exitCause, exitCode, logFile, logged, dsn, db, store, rows, srv,
                   inShutdown, notified, sigChan, sigCount, deadline,
                   shutdownErr, phases, lateSignal, rq, rs, rlog>>

(***************************************************************************)
(* The operating system                                                    *)
(***************************************************************************)
\* Variant of Interrupt in which the notification is dropped once the first
\* signal has been received (signal.Stop after <-c): a later signal takes the
\* default action.
InterruptAfterStop ==
    /\ Running
    /\ sigCount < MaxSignals
    /\ sigCount' = sigCount + 1
    /\ IF notified /\ pc \notin ShutdownPcs
       THEN /\ sigChan' = IF sigChan < 1 THEN sigChan + 1 ELSE sigChan
            /\ conns' = [c \in ConnIds |->
                           IF conns[c].st = "active"
                           THEN [conns[c] EXCEPT !.atSignal = TRUE]
                           ELSE conns[c]]
            /\ UNCHANGED <<pc, exitCause, exitCode, lateSignal>>
       ELSE /\ Terminate("sigint", 130)
            /\ lateSignal' = (lateSignal \/ pc \in ShutdownWaitPcs)
            /\ UNCHANGED <<sigChan, conns>>
    /\ UNCHANGED <<logFile, logged, dsn, db, store, rows, srv, inShutdown, notified,
                   deadline, shutdownErr, phases, rq, rs, rlog>>

\* An interrupt signal is raised: once signal.Notify has run it is sent to c
\* without blocking (dropped when c is full); before that the default action
\* ends the process.
Interrupt ==
    /\ Running
    /\ sigCount < MaxSignals
    /\ sigCount' = sigCount + 1
    /\ IF notified
       THEN /\ sigChan' = IF sigChan < 1 THEN sigChan + 1 ELSE sigChan
            /\ lateSignal' = (lateSignal \/ pc \in ShutdownWaitPcs)
            /\ conns' = [c \in ConnIds |->
                           IF conns[c].st = "active"
                           THEN [conns[c] EXCEPT !.atSignal = TRUE]
                           ELSE conns[c]]
            /\ UNCHANGED <<pc, exitCause, exitCode>>
       ELSE /\ Terminate("sigint", 130)
            /\ UNCHANGED <<sigChan, lateSignal, conns>>
    /\ UNCHANGED <<logFile, logged, dsn, db, store, rows, srv, inShutdown, notified,
                   deadline, shutdownErr, phases, rq, rs, rlog>>

Next ==
    \/ MainStep
    \/ DeadlineExpires
    \/ ListenAndServe
    \/ Serve
    \/ \E c \in ConnIds : Accept(c)
    \/ \E c \in ConnIds, r \in ReqSet : Dispatch(c, r)
    \/ \E c \in ConnIds : Respond(c)
    \/ Interrupt

Spec == Init /\ [][Next]_vars

\* The environment of the runs checked for progress: termination does not
\* read the DSN or the store.
LiveInit == Init /\ dsn = "postgres://db" /\ store = "up" /\ rows = ThreeVersions

\* The scheduler runs the main control path, the timer of the context fires,
\* and the select of server.Shutdown picks a ready case at random, so the
\* closed ctx.Done() is taken eventually.  Handlers need not ever return.
LiveSpec ==
    /\ LiveInit /\ [][Next]_vars
    /\ WF_vars(MainStep)
    /\ WF_vars(DeadlineExpires)
    /\ SF_vars(ShutdownTimeout)

(***************************************************************************)
(* The handler as a function of the request                                *)
(***************************************************************************)
InitRoute ==
    /\ pc = "serving"
    /\ exitCause = "none"
    /\ exitCode = -1
    /\ logFile = "open"
    /\ logged = {}
    /\ dsn \in {"", "postgres://db"}
    /\ db \in {"none", "open", "closed"}
    /\ store \in {"up", "down"}
    /\ rows \in Stores
    /\ srv = "listening"
    /\ inShutdown = FALSE
    /\ notified = TRUE
    /\ sigChan = 0
    /\ sigCount = 0
    /\ deadline = "unset"
    /\ shutdownErr = "none"
    /\ lateSignal = FALSE
    /\ phases = <<"Start", "Wait">>
    /\ conns = [c \in ConnIds |-> NoConn]
    /\ rq \in AllReqs
    /\ rs = NoResp
    /\ rlog = <<>>

ServeHTTP ==
    /\ pc = "serving"
    /\ rs = NoResp
    /\ rs' = createHttpHandler(rq, db, store)
    /\ rlog' = logHandler(rq, db, store)
    /\ UNCHANGED <<lifecycleVars, rq>>

NextRoute == ServeHTTP

SpecRoute == InitRoute /\ [][NextRoute]_vars

(***************************************************************************)
(* Properties                                                              *)
(***************************************************************************)
PhaseOrder == <<"Start", "Wait", "Shutdown">>

Liveness == [status |-> 200, body |-> "dzialam"]

Quiescent == \A c \in ConnIds : conns[c].st \in {"none", "closed"}

\* C1: when binding the listening address fails, the process ends with a
\* non-zero exit status and the main control path never reaches the signal
\* wait or anything after it.
C1_BindFailureIsFatal ==
    srv = "bindFailed" =>
        /\ pc \notin ({"wait"} \cup ShutdownPcs)
        /\ pc = "exited" => exitCode # 0

\* C2 as stated: once an interrupt signal has been raised the server accepts
\* no new connection.
C2_NoAcceptAfterSignal ==
    [][sigCount > 0 =>
         \A c \in ConnIds : conns[c].st = "none" => conns'[c].st = "none"]_vars

\* C2 as amended: once server.Shutdown has closed the listener the server
\* accepts no new connection, so every request dispatched from then on is on
\* a connection accepted before Shutdown was called.
C2_NoAcceptAfterShutdown ==
    [][inShutdown =>
         \A c \in ConnIds : conns[c].st = "none" => conns'[c].st = "none"]_vars

\* After the listener was closed, a request dispatched after the signal on a
\* connection accepted earlier is in flight while server.Shutdown waits.
C2_Witness ==
    /\ pc \in ShutdownWaitPcs
    /\ srv = "closed"
    /\ \E c \in ConnIds : conns[c].st = "active" /\ ~conns[c].atSignal

\* C3: the process does not leave through logrus.Exit with a request that was
\* in flight at the signal still unanswered, unless the shutdown deadline
\* expired first.
C3_InFlightAnsweredBeforeExit ==
    (exitCause = "logrusExit"
       /\ \E c \in ConnIds : conns[c].st = "active" /\ conns[c].atSignal)
    => (deadline = "expired" /\ shutdownErr = "deadline")

\* A request in flight at the signal was answered during shutdown and the
\* process then left with a nil shutdown error.
C3_Witness ==
    /\ exitCause = "logrusExit"
    /\ shutdownErr = "nil"
    /\ \E c \in ConnIds :
         conns[c].atSignal /\ conns[c].st = "closed" /\ conns[c].resp # NoResp

\* C4: once an interrupt signal has been raised the process eventually exits,
\* also when a request in flight never finishes.
C4_ExitsAfterInterrupt == (sigCount > 0) ~> (pc = "exited")

\* The process left at the deadline with a request still in flight.
C4_Witness ==
    /\ exitCause = "logrusExit"
    /\ shutdownErr = "deadline"
    /\ ActiveConns # {}

\* C5: whatever server.Shutdown returns, the next step of the main control
\* path is the exit with status 0; an error is logged as a warning and the log
\* file is closed when the process has left through shutdown.
C5_ShutdownErrorNeverBlocksExit ==
    /\ [](exitCause = "logrusExit" =>
            /\ exitCode = 0
            /\ logFile = "closed"
            /\ (shutdownErr = "deadline" <=> "Http server shutdown failed." \in logged))
    /\ [][pc = "shutdownReturned" /\ pc' # pc => exitCause' = "logrusExit"]_vars

\* The process left after server.Shutdown returned the deadline error.
C5_Witness ==
    /\ exitCause = "logrusExit"
    /\ shutdownErr = "deadline"
    /\ logFile = "closed"
    /\ "Http server shutdown failed." \in logged

\* C6: the main control path leaves the signal wait only by receiving a
\* buffered interrupt signal, and is in the shutdown phase only if a signal
\* was raised.
C6_OnlySignalEndsWait ==
    /\ [](pc \in ShutdownPcs => sigCount > 0)
    /\ [][pc = "wait" /\ pc' # pc => sigChan > 0 /\ pc' = "shutdownLog"]_vars

\* The serve goroutine returned with a bind error and the main control path
\* left the wait on a signal.
C6_Witness ==
    /\ pc = "shutdownLog"
    /\ srv = "bindFailed"
    /\ sigCount > 0

\* C7: the phases are entered in the order Start, Wait, Shutdown, each at most
\* once; a connection exists only after Start; a step of the main control
\* path neither dispatches nor answers a request.
C7_PhasesInOrder ==
    /\ [](/\ Len(phases) <= Len(PhaseOrder)
          /\ phases = SubSeq(PhaseOrder, 1, Len(phases))
          /\ (\E c \in ConnIds : conns[c].st # "none") => Len(phases) >= 1)
    /\ [][pc' # pc =>
            \A c \in ConnIds : (conns'[c].req = conns[c].req
                                /\ conns'[c].resp = conns[c].resp)]_vars

\* All three phases were entered and a request was answered.
C7_Witness ==
    /\ phases = PhaseOrder
    /\ \E c \in ConnIds : conns[c].resp # NoResp

\* C8: the wait inside server.Shutdown ends only by Shutdown returning, and
\* it returns only when no connection is left or the deadline has expired; a
\* signal raised meanwhile changes neither.
C8_SecondSignalIgnored ==
    [][(pc \in ShutdownWaitPcs /\ pc' \notin ShutdownWaitPcs) =>
         (pc' = "shutdownReturned" /\ (Quiescent' \/ deadline = "expired"))]_vars

\* A second signal was raised during the wait of server.Shutdown, which still
\* waits for a request in flight.
C8_Witness ==
    /\ lateSignal
    /\ sigCount >= 2
    /\ pc \in ShutdownWaitPcs
    /\ ActiveConns # {}

\* C9 as stated: a path other than "/" and "/version/latest", and a method
\* other than GET on "/version/latest", get the not-found response.
C9_UnmatchedIsNotFound ==
    (rs # NoResp /\ (\/ rq.path \notin {Root, VersionLatest}
                     \/ rq.path = VersionLatest /\ rq.method # "GET"))
    => rs = notFoundHandler

\* C9 as amended: a clean path other than "/" and "/version/latest" gets the
\* not-found response whatever the method; a method other than GET on
\* "/version/latest" gets 405 and a path that is not clean gets a redirect.
C9_UnmatchedCleanPathIsNotFound ==
    rs # NoResp =>
        /\ (cleanPath(rq.path) = rq.path /\ rq.path \notin {Root, VersionLatest})
              => (rs = notFoundHandler /\ rs.status = 404)
        /\ (rq.path = VersionLatest /\ rq.method # "GET") => rs.status = 405
        /\ cleanPath(rq.path) # rq.path => rs.status = 301

\* A POST to the clean unmatched path "/version" was answered.
C9_Witness ==
    /\ rq = Req("POST", <<"version">>)
    /\ rs = notFoundHandler

\* C10: every answer to GET / is 200 with the liveness body.
C10_LivenessAlwaysOk ==
    \A c \in ConnIds :
        (conns[c].req = Req("GET", Root) /\ conns[c].resp # NoResp)
        => conns[c].resp = Liveness

\* GET / was answered while the DSN was unset, the handle closed and the
\* store unreachable.
C10_Witness ==
    /\ dsn = ""
    /\ db = "closed"
    /\ store = "down"
    /\ \E c \in ConnIds : conns[c].req = Req("GET", Root) /\ conns[c].resp = Liveness

\* C11: the middleware writes exactly one entry for the request, writes it
\* before it calls the router, and calls the router exactly once, for a
\* matched request as for one that gets the not-found response.
C11_OneEntryThenDelegate ==
    rs # NoResp =>
        /\ Len(rlog) >= 2
        /\ rlog[1] = requestLog(rq)
        /\ rlog[2] = nextServeHTTP(rq)
        /\ Cardinality({i \in 1..Len(rlog) : rlog[i].msg = "Handling request."}) = 1
        /\ Cardinality({i \in 1..Len(rlog) : rlog[i].kind = "call"}) = 1

\* A request for an unmatched path was logged and got the not-found response.
C11_Witness ==
    /\ rs = notFoundHandler
    /\ rq.path = <<"x">>
    /\ rlog = <<requestLog(rq), nextServeHTTP(rq)>>

\* C12: with a DSN set and the store reachable, every answer to
\* GET /version/latest is 200 and the handle the repository uses is open.
C12_VersionsServedWhenStoreUp ==
    \A c \in ConnIds :
        (/\ dsn # ""
         /\ store = "up"
         /\ conns[c].req = Req("GET", VersionLatest)
         /\ conns[c].resp # NoResp)
        => (conns[c].resp.status = 200 /\ db = "open")

\* C13: a failed repository call gives its request a 500 answer and one error
\* entry; the step that answers it leaves the main control path, the process
\* and every other connection as they were.
C13_StorageErrorContained ==
    /\ [](\A c \in ConnIds :
            (/\ conns[c].req = Req("GET", VersionLatest)
             /\ conns[c].resp # NoResp
             /\ repoLatestVersions(db, store) = "StorageError")
            => /\ conns[c].resp.status = 500
               /\ Cardinality({i \in 1..Len(conns[c].log) :
                                 conns[c].log[i].level = "error"}) = 1)
    /\ [][\A c \in ConnIds :
            (conns'[c].resp.status = 500 /\ conns[c].resp.status # 500)
            => (/\ pc' = pc
                /\ exitCause' = exitCause
                /\ phases' = phases
                /\ \A d \in ConnIds \ {c} : conns'[d] = conns[d])]_vars

\* While the main control path waits for a signal, one request was answered
\* 500 and another one 200.
C13_Witness ==
    /\ pc = "wait"
    /\ Running
    /\ \E c, d \in ConnIds :
         /\ conns[c].resp.status = 500
         /\ conns[d].resp = Liveness

\* C14: with a DSN set and the store reachable and holding 1.2.0, 1.1.0 and
\* 1.0.0, every answer to GET /version/latest is 200 with these three
\* versions, newest first.
C14_ThreeVersionsNewestFirst ==
    \A c \in ConnIds :
        (/\ dsn # ""
         /\ store = "up"
         /\ rows = ThreeVersions
         /\ conns[c].req = Req("GET", VersionLatest)
         /\ conns[c].resp # NoResp)
        => (/\ conns[c].resp.status = 200
            /\ fetchLatestVersions(db, store, rows) = ThreeVersions)

\* C15: after a failed sql.Open the process has not ended by a panic: it goes
\* on to build the handler and start the server.
C15_OpenFailureStillStarts ==
    "Database open failed." \in logged => exitCause # "panic"

\* C16: an answer is what the handler gives for its request, the handle and
\* the store as they are now, and a step that dispatches or answers a request
\* leaves the handle, the DSN and the store unchanged.
C16_HandlersKeepSharedState ==
    /\ [](\A c \in ConnIds :
            conns[c].resp # NoResp
            => conns[c].resp = createHttpHandler(conns[c].req, db, store))
    /\ [][(\E c \in ConnIds : \/ conns'[c].req # conns[c].req
                              \/ conns'[c].resp # conns[c].resp)
          => (db' = db /\ dsn' = dsn /\ store' = store /\ rows' = rows)]_vars

\* Two connections got the same answer to the same version request.
C16_Witness ==
    \E c, d \in ConnIds :
        /\ c # d
        /\ conns[c].req = Req("GET", VersionLatest)
        /\ conns[d].req = conns[c].req
        /\ conns[c].resp # NoResp
        /\ conns[d].resp = conns[c].resp

\* C17: once server.Shutdown has set inShutdown the accept loop is not
\* running and no step takes a new connection.
C17_NoAcceptOnceShuttingDown ==
    /\ [](inShutdown => srv # "listening")
    /\ [][inShutdown' =>
            Cardinality({c \in ConnIds : conns'[c].st # "none"})
              <= Cardinality({c \in ConnIds : conns[c].st # "none"})]_vars

\* server.Shutdown was called after the serve goroutine had bound the address
\* and before it started the accept loop.
C17_Witness ==
    /\ inShutdown
    /\ srv = "bound"

\* C18: the default action of an interrupt signal ends the process only
\* before the serve goroutine has been started.
C18_NoKillOnceServing ==
    exitCause = "sigint" => srv = "none"

\* C19: a process that entered the Shutdown phase and has ended left through
\* logrus.Exit with status 0, and the context was never cancelled.
C19_ShutdownPhaseExitsZero ==
    (pc = "exited" /\ Len(phases) = Len(PhaseOrder))
    => (/\ exitCode = 0
        /\ exitCause = "logrusExit"
        /\ deadline \in {"armed", "expired"})

\* The process ended with status 0 although the listener was never bound.
C19_Witness ==
    /\ pc = "exited"
    /\ phases = PhaseOrder
    /\ srv = "bindFailed"
    /\ exitCode = 0

====
